---- MODULE Spec2Model ----
(***************************************************************************)
(* The resilience layer of src/src/util/retry.ts: the CircuitBreaker class *)
(* and the withRetry executor, as state machines.                          *)
(*                                                                         *)
(* An async function runs synchronously up to an `await` and is resumed    *)
(* later; every action below is one such synchronous stretch of the code.  *)
(***************************************************************************)
EXTENDS Integers, Sequences, FiniteSets, TLC

(***************************************************************************)
(* Bounds of the model.                                                    *)
(***************************************************************************)
\* constructor argument `threshold` ranges over 1..MaxThreshold
MaxThreshold == 2
\* constructor argument `timeout` ranges over 0..MaxTimeout
MaxTimeout == 2
\* Date.now() ranges over 0..MaxTime
MaxTime == 3
\* execute calls that may be suspended at `await fn()` at the same time
MaxInFlight == 2
\* no call is forwarded once failureCount could pass MaxFailures
MaxFailures == 3

\* strategy.maxAttempts ranges over -1..MaxAttempts
MaxAttempts == 3
\* strategy.initialDelayMs and strategy.maxDelayMs range over 0..MaxDelayMs
MaxDelayMs == 2
\* strategy.backoffFactor ranges over 1..MaxFactor
MaxFactor == 2
\* the statusCode of a CogneeError ranges over 0..MaxStatusCode
MaxStatusCode == 599
\* remember / rememberMany calls that may be in progress at the same time
MaxRemembers == 2
\* an organization id has 1..MaxIdLen characters
MaxIdLen == 2

(***************************************************************************)
(* Values.                                                                 *)
(***************************************************************************)
\* `number | null`: null is the empty tuple, a number t is <<t>>
Null == << >>
Some(t) == << t >>

\* JavaScript truthiness of a `number | null` (the left operand of && at
\* line 126): null and 0 are falsy
Truthy(v) == v # Null /\ v[1] # 0

Min(a, b) == IF a <= b THEN a ELSE b

CircuitState == {"closed", "open", "half-open"}

\* Outcome<T> = {success: true, value} | {success: false, error: MemoryError}
Success == [tag |-> "success", error |-> "none", statusCode |-> 0, message |-> "value"]
Failure(kind, code, msg) == [tag |-> "failure", error |-> kind, statusCode |-> code, message |-> msg]
\* a promise that rejects instead of resolving to an Outcome
Thrown == [tag |-> "throw", error |-> "none", statusCode |-> 0, message |-> "exception"]
\* no completion yet
Pending == [tag |-> "none", error |-> "none", statusCode |-> 0, message |-> "none"]

IsOutcome(r) == r.tag \in {"success", "failure"}

\* what the wrapped operation may resolve to: a success, a retryable and a
\* non-retryable failure
OpOutcomes == { Success,
                Failure("network_error", 500, "upstream"),
                Failure("permission_denied", 0, "denied") }
\* ... or reject with, when the thunk breaks its contract
OpCompletions == OpOutcomes \cup {Thrown}

\* what the thunk given to withRetry may resolve to: the same, and a second
\* failure kind that defaultRetryStrategy retries
ThunkOutcomes == OpOutcomes \cup { Failure("processing_failed", 0, "cognify") }

(***************************************************************************)
(* CircuitBreaker: the object's fields, the clock, the calls in progress.  *)
(***************************************************************************)
VARIABLES
    threshold,        \* constructor parameter (line 117)
    timeout,          \* constructor parameter (line 118)
    state,            \* this.state (line 112)
    failureCount,     \* this.failureCount (line 113)
    lastFailureTime,  \* this.lastFailureTime (line 114)
    clock,            \* what Date.now() returns
    calls,            \* the execute calls: per slot, where the call stands
    pristine,         \* history: no success and no reset() since construction
    failsSinceReset,  \* history: failures observed since construction / the last reset()
    run,              \* history: failures observed since the last success or reset()
    rcalls,           \* the withRetry calls: per slot, where the call stands
    probe,            \* a pure function under study: its input, then its output
    datasets,         \* the names of the datasets the remote service holds
    created,          \* history: per name, the createDataset requests sent
    remembers         \* the remember / rememberMany calls: per slot, where it stands

\* src/src/memory/remember.ts: the remote service and the calls in progress
mvars == <<datasets, created, remembers>>

bvars == <<threshold, timeout, state, failureCount, lastFailureTime, clock,
           calls, pristine, failsSinceReset, run>>

vars == <<threshold, timeout, state, failureCount, lastFailureTime, clock,
          calls, pristine, failsSinceReset, run, rcalls, probe, mvars>>

Slots == 1..MaxInFlight

\* a slot no call occupies
IdleCall == [pc |-> "idle", invoked |-> FALSE, trial |-> FALSE, result |-> Pending]

InFlight == { c \in Slots : calls[c].pc = "await" }

\* the object as a record, for the pure parts of execute
this == [state |-> state, failureCount |-> failureCount, lastFailureTime |-> lastFailureTime]

\* mutant: an open circuit answers with a kind no strategy retries
circuitOpenError_unknown == Failure("unknown_error", 503, "Circuit breaker is open")

\* mutant: an open circuit throws instead of returning a failure
circuitOpenError_throws == Thrown

\* lines 133-140: the failure an open circuit answers with
circuitOpenError == Failure("network_error", 503, "Circuit breaker is open")

\* mutant: the timeout is not compared
openCheck_nowindow(st, last, now, to) ==
    IF st = "open"
    THEN IF Truthy(last) THEN "half-open" ELSE "reject"
    ELSE "pass"

\* lines 123-142: what a call finds on entry. "pass": the circuit is not
\* open; "half-open": open and the timeout expired; "reject": still open
openCheck(st, last, now, to) ==
    IF st = "open"
    THEN IF Truthy(last) /\ now - last[1] >= to THEN "half-open" ELSE "reject"
    ELSE "pass"

\* mutant: a success leaves the failure count as it is
onSuccess_keepsCount(b) ==
    [b EXCEPT !.state = IF b.state = "half-open" THEN "closed" ELSE b.state]

\* mutant: a success in half-open does not close the circuit
onSuccess_stays(b) == [b EXCEPT !.failureCount = 0]

\* lines 147-153: the fields after fn() resolved to a success
onSuccess(b) ==
    [b EXCEPT !.failureCount = 0,
              !.state = IF b.state = "half-open" THEN "closed" ELSE b.state]

\* mutant: a failed trial reopens the circuit without counting the failure
onFailure_trialUncounted(b, now, thr) ==
    LET n == IF b.state = "half-open" THEN b.failureCount ELSE b.failureCount + 1
    IN [state |-> IF n >= thr THEN "open" ELSE b.state,
        failureCount |-> n,
        lastFailureTime |-> Some(now)]

\* mutant: the threshold test is > instead of >=
onFailure_late(b, now, thr) ==
    LET n == b.failureCount + 1
    IN [state |-> IF n > thr THEN "open" ELSE b.state,
        failureCount |-> n,
        lastFailureTime |-> Some(now)]

\* mutant: the time of the failure is not recorded
onFailure_notime(b, now, thr) ==
    LET n == b.failureCount + 1
    IN [state |-> IF n >= thr THEN "open" ELSE b.state,
        failureCount |-> n,
        lastFailureTime |-> b.lastFailureTime]

\* lines 156-163: the fields after fn() resolved to a failure
onFailure(b, now, thr) ==
    LET n == b.failureCount + 1
    IN [state |-> IF n >= thr THEN "open" ELSE b.state,
        failureCount |-> n,
        lastFailureTime |-> Some(now)]

\* mutant: a rejection of fn() is caught and counted as a failure
onThrow_counted(b) == [b EXCEPT !.failureCount = @ + 1]

\* line 145: when fn() rejects, execute rejects there and no field is written
onThrow(b) == b

\* mutant: reset() leaves this.failureCount as it is
resetFields_keepsCount ==
    [state |-> "closed", failureCount |-> failureCount, lastFailureTime |-> Null]

\* mutant: reset() leaves this.state as it is
resetFields_keepsState == [state |-> state, failureCount |-> 0, lastFailureTime |-> Null]

\* lines 172-176
resetFields == [state |-> "closed", failureCount |-> 0, lastFailureTime |-> Null]

\* line 168
getState == state

(***************************************************************************)
(* withRetry: the strategy, and the calls in progress.                     *)
(***************************************************************************)
\* lines 22-28
defaultRetryStrategy ==
    [maxAttempts |-> 3, initialDelayMs |-> 1000, maxDelayMs |-> 10000,
     backoffFactor |-> 2, retryableErrors |-> {"network_error", "processing_failed"}]

\* a strategy with delays of 100 ms and up, retrying network errors only
scenarioStrategy ==
    [maxAttempts |-> 3, initialDelayMs |-> 100, maxDelayMs |-> 1000,
     backoffFactor |-> 2, retryableErrors |-> {"network_error"}]

\* lines 11-17: the RetryStrategy values the calls are given
Strategies ==
    {defaultRetryStrategy, scenarioStrategy} \cup
    [maxAttempts : (-1)..MaxAttempts,
     initialDelayMs : 0..MaxDelayMs,
     maxDelayMs : 0..MaxDelayMs,
     backoffFactor : 1..MaxFactor,
     retryableErrors : {{}, {"network_error"}, {"network_error", "processing_failed"}}]

\* the withRetry calls a run may hold at the same time
RSlots == {1, 2}

\* b to the e-th, exactly, for a small non-negative integer exponent
RECURSIVE Pow(_, _)
Pow(b, e) == IF e = 0 THEN 1 ELSE b * Pow(b, e - 1)

\* The JavaScript numbers (IEEE 754 doubles) of lines 77-81: an exact
\* integer, a value above 32767 and so above every maxDelayMs of Strategies,
\* Infinity, and NaN
Num(n) == [kind |-> "finite", v |-> n]
Huge == [kind |-> "huge", v |-> 0]
Infinity == [kind |-> "Infinity", v |-> 0]
NaN == [kind |-> "NaN", v |-> 0]

\* the least exponent e at which Math.pow(b, e) overflows to Infinity:
\* 2^1024, 3^647 and 4^512 are above Number.MAX_VALUE (about 1.8 * 10^308)
OverflowAt == [b \in 2..4 |-> CASE b = 2 -> 1024 [] b = 3 -> 647 [] b = 4 -> 512]

\* Math.pow(b, e), line 79, for integers b in 1..4 and e >= 0
mathPow(b, e) ==
    CASE b = 1 -> Num(1)
      [] e <= 14 -> Num(Pow(b, e))
      [] e < OverflowAt[b] -> Huge
      [] OTHER -> Infinity

\* a * p, line 79, for an integer a >= 0: 0 * Infinity is NaN
times(a, p) ==
    CASE p.kind = "NaN" -> NaN
      [] a = 0 -> IF p.kind = "Infinity" THEN NaN ELSE Num(0)
      [] p.kind = "finite" -> IF p.v <= 32767 THEN Num(a * p.v) ELSE Huge
      [] OTHER -> p

\* Math.min(x, m), lines 78-81, for an integer m <= 32767: NaN if x is NaN
mathMin(x, m) ==
    CASE x.kind = "NaN" -> NaN
      [] x.kind = "finite" -> Num(Min(x.v, m))
      [] OTHER -> Num(m)

\* a slot no withRetry call occupies
IdleRetry ==
    [pc |-> "idle", strategy |-> defaultRetryStrategy, attemptNumber |-> 0,
     delay |-> Num(0), invocations |-> 0, outs |-> << >>, delays |-> << >>,
     result |-> Pending]

\* a check that takes every failure for retryable
isRetryableError_always(error, strategy) == TRUE

\* lines 96-101
isRetryableError(error, strategy) == error \in strategy.retryableErrors

\* a delay whose exponent is attemptNumber, one too many
backoffDelay_offbyone(strategy, attemptNumber) ==
    mathMin(times(strategy.initialDelayMs,
                  mathPow(strategy.backoffFactor, attemptNumber)),
            strategy.maxDelayMs)

\* lines 77-81
backoffDelay(strategy, attemptNumber) ==
    mathMin(times(strategy.initialDelayMs,
                  mathPow(strategy.backoffFactor, attemptNumber - 1)),
            strategy.maxDelayMs)

\* a verdict that lacks the success check of line 59: a success is retried
\* while attempts remain
attemptVerdict_retriesAll(r, attemptNumber, strategy) ==
    CASE r.tag = "throw" -> "throw"
      [] attemptNumber >= strategy.maxAttempts -> "return"
      [] r.tag = "failure" /\ ~isRetryableError(r.error, strategy) -> "return"
      [] OTHER -> "sleep"

\* a verdict that compares with > at line 67: one attempt too many
attemptVerdict_extra(r, attemptNumber, strategy) ==
    CASE r.tag = "throw" -> "throw"
      [] r.tag = "success" -> "return"
      [] attemptNumber > strategy.maxAttempts -> "return"
      [] ~isRetryableError(r.error, strategy) -> "return"
      [] OTHER -> "sleep"

\* a verdict that gives up one attempt early
attemptVerdict_early(r, attemptNumber, strategy) ==
    CASE r.tag = "throw" -> "throw"
      [] r.tag = "success" -> "return"
      [] attemptNumber + 1 >= strategy.maxAttempts -> "return"
      [] ~isRetryableError(r.error, strategy) -> "return"
      [] OTHER -> "sleep"

\* a verdict that looks at the kind of the first failure only
attemptVerdict_firstOnly(r, attemptNumber, strategy) ==
    CASE r.tag = "throw" -> "throw"
      [] r.tag = "success" -> "return"
      [] attemptNumber >= strategy.maxAttempts -> "return"
      [] attemptNumber = 1 /\ ~isRetryableError(r.error, strategy) -> "return"
      [] OTHER -> "sleep"

\* a verdict that always grants one retry: the limit is max(maxAttempts, 2)
attemptVerdict_atLeastTwo(r, attemptNumber, strategy) ==
    CASE r.tag = "throw" -> "throw"
      [] r.tag = "success" -> "return"
      [] attemptNumber >= strategy.maxAttempts /\ attemptNumber >= 2 -> "return"
      [] ~isRetryableError(r.error, strategy) -> "return"
      [] OTHER -> "sleep"

\* lines 58-87: what attempt(attemptNumber) does with the result of fn():
\* "return" it, "throw" (the await rejected), or "sleep" and retry
attemptVerdict(r, attemptNumber, strategy) ==
    CASE r.tag = "throw" -> "throw"
      [] r.tag = "success" -> "return"
      [] attemptNumber >= strategy.maxAttempts -> "return"
      [] ~isRetryableError(r.error, strategy) -> "return"
      [] OTHER -> "sleep"

InitRetry == rcalls = [i \in RSlots |-> IdleRetry]

\* withRetry, lines 51-56 and 90: attempt(1) runs to its await fn()
withRetry(i, strategy) ==
    /\ rcalls[i].pc = "idle"
    /\ rcalls' = [rcalls EXCEPT ![i] =
            [pc |-> "fn", strategy |-> strategy, attemptNumber |-> 1,
             delay |-> Num(0), invocations |-> 1, outs |-> << >>,
             delays |-> << >>, result |-> Pending]]
    /\ UNCHANGED <<bvars, probe, mvars>>

\* a call that counts every attempt of every call in progress: the
\* attempt number is kept outside the call
nextAttempt_shared(me) ==
    LET n == CHOOSE k \in { rcalls[j].attemptNumber : j \in RSlots } :
                 \A j \in RSlots : rcalls[j].attemptNumber <= k
    IN [me EXCEPT !.pc = "fn",
                  !.attemptNumber = n + 1,
                  !.invocations = @ + 1,
                  !.delays = Append(@, me.delay)]

\* lines 87 and 56: attempt(attemptNumber + 1) calls fn() once more, after
\* the delay it slept
nextAttempt(me) ==
    [me EXCEPT !.pc = "fn",
               !.attemptNumber = @ + 1,
               !.invocations = @ + 1,
               !.delays = Append(@, me.delay)]

\* a retry that sleeps the delay twice
retryAfter_double(me, delay) ==
    [me EXCEPT !.pc = "sleep", !.delay = delay, !.delays = Append(@, delay)]

\* a retry that does not wait for its timer: `sleep(delay)` without await
retryAfter_noawait(me, delay) == nextAttempt([me EXCEPT !.delay = delay])

\* line 84: the call suspends at await sleep(delay)
retryAfter(me, delay) == [me EXCEPT !.pc = "sleep", !.delay = delay]

\* a call that returns the failure of its first attempt
returned_first(me, verdict, r) ==
    [me EXCEPT !.pc = "done",
               !.result = IF verdict = "throw" THEN Thrown ELSE me.outs[1]]

\* lines 59-61, 67-69, 72-74: the call returns the result of fn() as it is;
\* line 56: a rejection of fn() is the rejection of the call
returned(me, verdict, r) ==
    [me EXCEPT !.pc = "done",
               !.result = IF verdict = "throw" THEN Thrown ELSE r]

\* attempt, lines 56-84: fn() settled with r; the call returns, or computes
\* the delay and suspends at await sleep(delay)
attemptResume(i, r) ==
    /\ rcalls[i].pc = "fn"
    /\ LET me == [rcalls[i] EXCEPT !.outs = Append(@, r)]
           verdict == attemptVerdict(r, me.attemptNumber, me.strategy)
       IN rcalls' = [rcalls EXCEPT ![i] =
            IF verdict = "sleep"
            THEN retryAfter(me, backoffDelay(me.strategy, me.attemptNumber))
            ELSE returned(me, verdict, r)]
    /\ UNCHANGED <<bvars, probe, mvars>>

\* attempt, lines 84-87 and 56: the timer of sleep(delay) fired, and
\* attempt(attemptNumber + 1) runs to its await fn()
sleepResume(i) ==
    /\ rcalls[i].pc = "sleep"
    /\ rcalls' = [rcalls EXCEPT ![i] = nextAttempt(rcalls[i])]
    /\ UNCHANGED <<bvars, probe, mvars>>

\* the caller takes the result of withRetry; the slot is free again
rcollect(i) ==
    /\ rcalls[i].pc = "done"
    /\ rcalls' = [rcalls EXCEPT ![i] = IdleRetry]
    /\ UNCHANGED <<bvars, probe, mvars>>

InitBreaker ==
    /\ threshold \in 1..MaxThreshold
    /\ timeout \in 0..MaxTimeout
    /\ state = "closed"
    /\ failureCount = 0
    /\ lastFailureTime = Null
    /\ clock = 0
    /\ calls = [c \in Slots |-> IdleCall]
    /\ pristine = TRUE
    /\ failsSinceReset = 0
    /\ run = 0

\* execute, lines 121-145: from the call to the first suspension (await fn())
\* or to the early return of an open circuit
executeEnter(c) ==
    /\ calls[c].pc = "idle"
    /\ \A d \in Slots : d < c => calls[d].pc # "idle"   \* slots are taken in order
    /\ LET verdict == openCheck(state, lastFailureTime, clock, timeout)
       IN /\ (verdict # "reject") => failureCount + Cardinality(InFlight) < MaxFailures
          /\ state' = IF verdict = "half-open" THEN "half-open" ELSE state
          /\ calls' = [calls EXCEPT ![c] =
                IF verdict = "reject"
                THEN [pc |-> "done", invoked |-> FALSE, trial |-> FALSE,
                      result |-> circuitOpenError]
                ELSE [pc |-> "await", invoked |-> TRUE,
                      trial |-> (verdict = "half-open"), result |-> Pending]]
    /\ UNCHANGED <<threshold, timeout, failureCount, lastFailureTime, clock,
                   pristine, failsSinceReset, run, rcalls, probe, mvars>>

\* execute, lines 145-165: fn() settled with r and the call runs to its end
executeResume(c, r) ==
    /\ calls[c].pc = "await"
    /\ LET b == CASE r.tag = "success" -> onSuccess(this)
                  [] r.tag = "failure" -> onFailure(this, clock, threshold)
                  [] OTHER -> onThrow(this)
       IN /\ state' = b.state
          /\ failureCount' = b.failureCount
          /\ lastFailureTime' = b.lastFailureTime
    /\ calls' = [calls EXCEPT ![c].pc = "done", ![c].result = r]
    /\ pristine' = (pristine /\ r.tag # "success")
    /\ failsSinceReset' = IF r.tag = "failure"
                          THEN Min(failsSinceReset + 1, MaxFailures)
                          ELSE failsSinceReset
    /\ run' = CASE r.tag = "success" -> 0
                [] r.tag = "failure" -> run + 1
                [] OTHER -> run
    /\ UNCHANGED <<threshold, timeout, clock, rcalls, probe, mvars>>

\* the caller takes the call's result; the slot is free for the next call
collect(c) ==
    /\ calls[c].pc = "done"
    /\ calls' = [calls EXCEPT ![c] = IdleCall]
    /\ UNCHANGED <<threshold, timeout, state, failureCount, lastFailureTime,
                   clock, pristine, failsSinceReset, run, rcalls, probe, mvars>>

\* reset(), lines 172-176
reset ==
    /\ state' = resetFields.state
    /\ failureCount' = resetFields.failureCount
    /\ lastFailureTime' = resetFields.lastFailureTime
    /\ pristine' = FALSE
    /\ failsSinceReset' = 0
    /\ run' = 0
    /\ UNCHANGED <<threshold, timeout, clock, calls, rcalls, probe, mvars>>

\* time passes: Date.now() (lines 124, 158) returns a later value
Tick ==
    /\ clock < MaxTime
    /\ clock' = clock + 1
    /\ UNCHANGED <<threshold, timeout, state, failureCount, lastFailureTime,
                   calls, pristine, failsSinceReset, run, rcalls, probe, mvars>>

\* calls may overlap: a call may enter while others are suspended at await
Next ==
    \/ \E c \in Slots : executeEnter(c)
    \/ \E c \in Slots, r \in OpOutcomes : executeResume(c, r)
    \/ \E c \in Slots : collect(c)
    \/ reset
    \/ Tick

\* no pure function is under study while the state machines run
NoProbe == [pc |-> "none"]

\* the dataset names the calls target
DatasetNames == {"organization_acme_shared", "organization_acme_user_u1_memories"}

MSlots == 1..MaxRemembers

\* a slot no remember call occupies
IdleRemember == [pc |-> "idle", op |-> "none", datasetName |-> "none", datasetId |-> "none"]

\* no remember call, and a remote service without datasets
NoRemember ==
    /\ datasets = {}
    /\ created = [n \in DatasetNames |-> 0]
    /\ remembers = [k \in MSlots |-> IdleRemember]

Init == InitBreaker /\ InitRetry /\ probe = NoProbe /\ NoRemember

Spec == Init /\ [][Next]_vars

\* sequential use: a call enters only when no call is in progress, and
\* reset() is called between calls
AllIdle == \A c \in Slots : calls[c].pc = "idle"
Quiet == InFlight = {}

NextSeq ==
    \/ AllIdle /\ executeEnter(1)
    \/ \E r \in OpOutcomes : executeResume(1, r)
    \/ collect(1)
    \/ Quiet /\ reset
    \/ Tick

SpecSeq == Init /\ [][NextSeq]_vars

\* sequential use with a thunk that may break its contract and reject
NextSeqThrow ==
    \/ AllIdle /\ executeEnter(1)
    \/ \E r \in OpCompletions : executeResume(1, r)
    \/ collect(1)
    \/ Quiet /\ reset
    \/ Tick

SpecSeqThrow == Init /\ [][NextSeqThrow]_vars

\* calls overlap as in Next, and reset() is called between calls only
NextOverlap ==
    \/ \E c \in Slots : executeEnter(c)
    \/ \E c \in Slots, r \in OpOutcomes : executeResume(c, r)
    \/ \E c \in Slots : collect(c)
    \/ Quiet /\ reset
    \/ Tick

SpecOverlap == Init /\ [][NextOverlap]_vars

\* one withRetry call at a time, over a thunk that resolves to any Outcome
NextRetry ==
    \/ \E s \in Strategies : withRetry(1, s)
    \/ \E r \in ThunkOutcomes : attemptResume(1, r)
    \/ sleepResume(1)
    \/ rcollect(1)

SpecRetry == Init /\ [][NextRetry]_vars

\* the same, where every invocation of the thunk and every timer comes to
\* its end
FairRetry ==
    /\ WF_vars(\E r \in ThunkOutcomes : attemptResume(1, r))
    /\ WF_vars(sleepResume(1))

SpecRetryFair == Init /\ [][NextRetry]_vars /\ FairRetry

\* a breaker constructed with the defaults of lines 117-118 and never
\* called, and no withRetry call
InitUnused ==
    /\ threshold = 5
    /\ timeout = 60000
    /\ state = "closed"
    /\ failureCount = 0
    /\ lastFailureTime = Null
    /\ clock = 0
    /\ calls = [c \in Slots |-> IdleCall]
    /\ pristine = TRUE
    /\ failsSinceReset = 0
    /\ run = 0
    /\ InitRetry

\* two withRetry calls in progress at once, interleaved at their awaits; the
\* strategies they are given: the same object, or different ones
PairStrategies ==
    { defaultRetryStrategy, scenarioStrategy,
      [scenarioStrategy EXCEPT !.maxAttempts = 2, !.initialDelayMs = 600] }

NextPair ==
    \/ \E i \in RSlots, s \in PairStrategies : withRetry(i, s)
    \/ \E i \in RSlots, r \in ThunkOutcomes : attemptResume(i, r)
    \/ \E i \in RSlots : sleepResume(i)
    \/ \E i \in RSlots : rcollect(i)

InitPair == InitUnused /\ probe = NoProbe /\ NoRemember

SpecPair == InitPair /\ [][NextPair]_vars

\* both components, one exercised at a time: withRetry on a breaker as
\* constructed, the breaker while no withRetry call is in progress. The
\* thunks keep their contract: they resolve to an Outcome
BreakerAsConstructed == this = resetFields /\ AllIdle /\ pristine /\ clock = 0
RetryIdle == \A i \in RSlots : rcalls[i].pc = "idle"

NextBoth ==
    \/ RetryIdle /\ Next
    \/ BreakerAsConstructed /\ NextRetry

SpecBoth == Init /\ [][NextBoth]_vars

\* withRetry(() => breaker.execute(op)) with the default strategy, after
\* direct calls of breaker.execute(op), one call at a time.  The thunk of
\* withRetry is an execute call: the call of fn() at line 56 is the entry
\* into execute, and what fn() resolves to is what execute returns
NextCompose ==
    \/ RetryIdle /\ AllIdle /\ executeEnter(1)
    \/ \E r \in OpOutcomes : executeResume(1, r)
    \/ rcalls[1].pc # "fn" /\ collect(1)
    \/ RetryIdle /\ Quiet /\ reset
    \/ Tick
    \/ AllIdle /\ withRetry(1, defaultRetryStrategy)
    \/ rcalls[1].pc = "fn" /\ AllIdle /\ executeEnter(1)
    \/ rcalls[1].pc = "fn" /\ calls[1].pc = "done" /\ attemptResume(1, calls[1].result)
    \/ AllIdle /\ sleepResume(1)
    \/ AllIdle /\ rcollect(1)

SpecCompose == Init /\ [][NextCompose]_vars

(***************************************************************************)
(* The pure functions, studied on inputs drawn by Init.                    *)
(***************************************************************************)
\* the attempt numbers the delay is studied at: the first ones, and those
\* whose exponent attemptNumber - 1 is where Math.pow overflows
ProbeAttempts ==
    (1..MaxAttempts) \cup { OverflowAt[b] + d : b \in 2..MaxFactor, d \in 0..2 }

\* a strategy that retries some kind, with maxAttempts raised so that the
\* call does sleep after attempts attemptNumber and attemptNumber + 1
InitDelay ==
    /\ InitUnused
    /\ NoRemember
    /\ \E s \in Strategies, n \in ProbeAttempts :
          /\ s.retryableErrors # {}
          /\ probe = [pc |-> "in", strategy |-> [s EXCEPT !.maxAttempts = n + 2],
                      attemptNumber |-> n, delay |-> Num(0), next |-> Num(0)]

\* lines 77-81 at two successive failed attempts: the delay after attempt
\* attemptNumber and the one after the next attempt
computeDelay ==
    /\ probe.pc = "in"
    /\ probe' = [probe EXCEPT
            !.pc = "out",
            !.delay = backoffDelay(probe.strategy, probe.attemptNumber),
            !.next = backoffDelay(probe.strategy, probe.attemptNumber + 1)]
    /\ UNCHANGED <<bvars, rcalls, mvars>>

SpecDelay == InitDelay /\ [][computeDelay]_vars

\* src/src/util/errors.ts.  An error message is its sequence of words; the
\* words that the pattern of lines 91-93 matches are the UUIDs
Uuids == { "123e4567-e89b-12d3-a456-426614174000",
           "0F8FAD5B-D9CB-469F-A165-70867728950E" }

Messages ==
    { << >>,
      <<"boom">>,
      <<"Dataset", "123e4567-e89b-12d3-a456-426614174000", "not", "found">>,
      <<"0F8FAD5B-D9CB-469F-A165-70867728950E", "or",
        "123e4567-e89b-12d3-a456-426614174000">> }

\* `message || fallback`: the empty string is falsy
orElse(message, fallback) == IF message = << >> THEN fallback ELSE message

\* src/src/util/errors.ts, lines 89-95: the first match, or 'unknown'
extractDatasetId(message) ==
    LET hits == { k \in 1..Len(message) : message[k] \in Uuids }
    IN IF hits = {} THEN "unknown"
       ELSE message[CHOOSE k \in hits : \A j \in hits : k <= j]

\* src/src/types/errors.ts, lines 9-45: the kinds of MemoryError
MemoryErrorKinds ==
    { "authentication_failed", "permission_denied", "dataset_not_found",
      "processing_failed", "network_error", "invalid_input",
      "organization_required", "unknown_error" }

\* a MemoryError of the given kind; a field the kind lacks is Null or "none"
MemoryError(kind, msg) ==
    [error |-> kind, message |-> msg, statusCode |-> Null, datasetId |-> "none",
     requiredPermission |-> "none", field |-> "none"]

\* what mapCogneeError may be given: a CogneeError with or without a
\* statusCode, another Error, a value that is no Error
HttpStatus == 0..MaxStatusCode
ErrorInputs ==
    [class : {"CogneeError"}, statusCode : {Null} \cup { Some(n) : n \in HttpStatus },
     message : Messages]
    \cup [class : {"Error", "other"}, statusCode : {Null}, message : Messages]

\* a default that applies to a missing status only, as `??` would
statusOr500_nullish(sc) == IF sc # Null THEN sc[1] ELSE 500

\* src/src/util/errors.ts, line 18: `cogneeError.statusCode || 500`
statusOr500(sc) == IF Truthy(sc) THEN sc[1] ELSE 500

\* src/src/util/errors.ts, lines 15-84
mapCogneeError(error) ==
    IF error.class = "CogneeError"
    THEN LET statusCode == statusOr500(error.statusCode)
             message == error.message
         IN CASE statusCode = 401 ->
                   MemoryError("authentication_failed",
                               orElse(message, <<"Authentication", "failed">>))
              [] statusCode = 403 ->
                   [MemoryError("permission_denied", << >>)
                      EXCEPT !.datasetId = extractDatasetId(message),
                             !.requiredPermission = "read"]
              [] statusCode = 404 ->
                   [MemoryError("dataset_not_found", << >>)
                      EXCEPT !.datasetId = extractDatasetId(message)]
              [] statusCode >= 500 ->
                   [MemoryError("network_error",
                                orElse(message, <<"Network", "error", "occurred">>))
                      EXCEPT !.statusCode = Some(statusCode)]
              [] statusCode = 400 \/ statusCode = 422 ->
                   [MemoryError("invalid_input",
                                orElse(message, <<"Invalid", "input">>))
                      EXCEPT !.field = "unknown"]
              [] OTHER ->
                   [MemoryError("network_error",
                                orElse(message, <<"Unknown", "error", "occurred">>))
                      EXCEPT !.statusCode = Some(statusCode)]
    ELSE IF error.class = "Error"
         THEN MemoryError("unknown_error", error.message)
         ELSE MemoryError("unknown_error", <<"An", "unknown", "error", "occurred">>)

InitErrors ==
    /\ InitUnused
    /\ NoRemember
    /\ probe \in [pc : {"in"}, error : ErrorInputs, mapped : {MemoryError("none", << >>)}]

\* mapCogneeError(error) is called and returns
mapError ==
    /\ probe.pc = "in"
    /\ probe' = [probe EXCEPT !.pc = "out", !.mapped = mapCogneeError(probe.error)]
    /\ UNCHANGED <<bvars, rcalls, mvars>>

SpecErrors == InitErrors /\ [][mapError]_vars

(***************************************************************************)
(* src/src/dataset/strategy.ts: the names of the datasets.  A string is    *)
(* the sequence of its characters.                                         *)
(***************************************************************************)
\* the characters an id is made of: a letter, a hyphen, an underscore
IdChars == {"a", "-", "_"}

RECURSIVE Strings(_)
\* the strings over IdChars of length 1..n
Strings(n) ==
    IF n = 0 THEN {}
    ELSE LET shorter == Strings(n - 1)
         IN { <<ch>> : ch \in IdChars } \cup shorter
              \cup { Append(w, ch) : w \in shorter, ch \in IdChars }

OrganizationIds == Strings(MaxIdLen)
MemberIds == { <<"a">>, <<"a", "_", "a">> }

\* the literals of lines 33-39 and 77
organization_ == <<"o", "r", "g", "a", "n", "i", "z", "a", "t", "i", "o", "n", "_">>
user_ == <<"_", "u", "s", "e", "r", "_">>
memories_ == <<"_", "m", "e", "m", "o", "r", "i", "e", "s">>
project_ == <<"_", "p", "r", "o", "j", "e", "c", "t", "_">>
knowledge_ == <<"_", "k", "n", "o", "w", "l", "e", "d", "g", "e">>
shared_ == <<"_", "s", "h", "a", "r", "e", "d">>

\* the strategies of scope user, project and organization
DatasetStrategies ==
    [scope : {"user"}, organizationId : OrganizationIds, memberId : MemberIds]
    \cup [scope : {"project"}, organizationId : OrganizationIds, memberId : MemberIds]
    \cup [scope : {"organization"}, organizationId : OrganizationIds, memberId : {<< >>}]

\* lines 26-50 (memberId is userId or projectId); the custom scope is left out
generateDatasetName(strategy) ==
    CASE strategy.scope = "user" ->
           organization_ \o strategy.organizationId \o user_ \o strategy.memberId
             \o memories_
      [] strategy.scope = "project" ->
           organization_ \o strategy.organizationId \o project_ \o strategy.memberId
             \o knowledge_
      [] strategy.scope = "organization" ->
           organization_ \o strategy.organizationId \o shared_

\* lines 74-79: the match of /^organization_([^_]+)/, group 1 being the
\* longest run of characters other than "_" after the prefix; null
\* (found = FALSE) when there is no match
extractOrganizationId(datasetName) ==
    LET p == Len(organization_)
        stops == { q \in (p + 1)..(Len(datasetName) + 1) :
                     q = Len(datasetName) + 1 \/ datasetName[q] = "_" }
        stop == CHOOSE q \in stops : \A q2 \in stops : q <= q2
    IN IF Len(datasetName) >= p /\ SubSeq(datasetName, 1, p) = organization_
          /\ stop > p + 1
       THEN [found |-> TRUE, id |-> SubSeq(datasetName, p + 1, stop - 1)]
       ELSE [found |-> FALSE, id |-> << >>]

\* lines 88-94
isOrganizationDataset(datasetName, organizationId) ==
    LET extracted == extractOrganizationId(datasetName)
    IN extracted.found /\ extracted.id = organizationId

InitNaming ==
    /\ InitUnused
    /\ NoRemember
    /\ probe \in [pc : {"in"}, strategy : DatasetStrategies, name : {<< >>},
                  extracted : {[found |-> FALSE, id |-> << >>]}, belongs : {FALSE}]

\* the name is generated, and handed to extractOrganizationId and to
\* isOrganizationDataset with the organization id of the strategy
nameRoundTrip ==
    /\ probe.pc = "in"
    /\ LET name == generateDatasetName(probe.strategy)
       IN probe' = [probe EXCEPT
              !.pc = "out",
              !.name = name,
              !.extracted = extractOrganizationId(name),
              !.belongs = isOrganizationDataset(name, probe.strategy.organizationId)]
    /\ UNCHANGED <<bvars, rcalls, mvars>>

SpecNaming == InitNaming /\ [][nameRoundTrip]_vars

(***************************************************************************)
(* src/src/memory/remember.ts: remember and rememberMany on one session,   *)
(* and the remote service they call.  The remote service answers every     *)
(* request; the id of a dataset is its name.                               *)
(***************************************************************************)
\* some of the datasets may exist before the first call
InitRemember ==
    /\ InitUnused
    /\ probe = NoProbe
    /\ datasets \in SUBSET DatasetNames
    /\ created = [n \in DatasetNames |-> 0]
    /\ remembers = [k \in MSlots |-> IdleRemember]

\* remember, lines 34-45, or rememberMany, lines 96-107, and ensureDataset,
\* lines 144-149: the call runs to `await getDatasets(session.config)`
remember(k, op, datasetName) ==
    /\ remembers[k].pc = "idle"
    /\ remembers' = [remembers EXCEPT ![k] =
            [pc |-> "getDatasets", op |-> op, datasetName |-> datasetName,
             datasetId |-> "none"]]
    /\ UNCHANGED <<bvars, rcalls, probe, datasets, created>>

\* ensureDataset, lines 149-157: getDatasets resolved with the datasets the
\* service holds; the call returns the id of the one with its name, or
\* sends createDataset and suspends
getDatasetsResume(k) ==
    /\ remembers[k].pc = "getDatasets"
    /\ LET me == remembers[k]
           existing == me.datasetName \in datasets
       IN /\ remembers' = [remembers EXCEPT ![k] =
                IF existing
                THEN [me EXCEPT !.pc = "addData", !.datasetId = me.datasetName]
                ELSE [me EXCEPT !.pc = "createDataset"]]
          /\ created' = IF existing THEN created
                        ELSE [created EXCEPT ![me.datasetName] = @ + 1]
    /\ UNCHANGED <<bvars, rcalls, probe, datasets>>

\* ensureDataset, lines 157-158, and lines 45-54 or 107-113: the service
\* created the dataset and createDataset resolved; the call sends addData
createDatasetResume(k) ==
    /\ remembers[k].pc = "createDataset"
    /\ datasets' = datasets \cup {remembers[k].datasetName}
    /\ remembers' = [remembers EXCEPT ![k].pc = "addData",
                                      ![k].datasetId = remembers[k].datasetName]
    /\ UNCHANGED <<bvars, rcalls, probe, created>>

\* lines 54-74 or 113-135: addData resolved and the call returns
addDataResume(k) ==
    /\ remembers[k].pc = "addData"
    /\ remembers' = [remembers EXCEPT ![k].pc = "done"]
    /\ UNCHANGED <<bvars, rcalls, probe, datasets, created>>

\* the caller takes the result; the slot is free for the next call
mcollect(k) ==
    /\ remembers[k].pc = "done"
    /\ remembers' = [remembers EXCEPT ![k] = IdleRemember]
    /\ UNCHANGED <<bvars, rcalls, probe, datasets, created>>

\* calls on one session, interleaved at their awaits
NextRemember ==
    \/ \E k \in MSlots, op \in {"remember", "rememberMany"}, n \in DatasetNames :
            remember(k, op, n)
    \/ \E k \in MSlots : getDatasetsResume(k)
    \/ \E k \in MSlots : createDatasetResume(k)
    \/ \E k \in MSlots : addDataResume(k)
    \/ \E k \in MSlots : mcollect(k)

SpecRemember == InitRemember /\ [][NextRemember]_vars

(***************************************************************************)
(* Vocabulary of the properties.                                           *)
(***************************************************************************)
\* a step in which an execute call is issued on slot c
Entered(c) == calls[c].pc = "idle" /\ calls'[c].pc # "idle"
\* a step in which the operation of the call on slot c settles
Resumed(c) == calls[c].pc = "await" /\ calls'[c].pc = "done"
\* the call on slot c was answered without invoking the operation
Rejected(c) == calls[c].pc = "done" /\ ~calls[c].invoked
\* the cooldown window has elapsed at the present time
WindowElapsed == lastFailureTime # Null /\ clock - lastFailureTime[1] >= timeout
WithinWindow == lastFailureTime # Null /\ clock - lastFailureTime[1] < timeout
\* the trial calls in progress
Trials == { c \in Slots : calls[c].pc = "await" /\ calls[c].trial }

\* every outcome of the sequence is a failure of a kind the strategy retries
AllRetryable(outs, strategy) ==
    \A k \in 1..Len(outs) :
        outs[k].tag = "failure" /\ outs[k].error \in strategy.retryableErrors

\* a step in which withRetry call i invokes its operation
Invoked(i) == rcalls'[i].invocations > rcalls[i].invocations

\* x <= y on JavaScript numbers that are exact integers or NaN: a
\* comparison with NaN is false
lessEq(x, y) == x.kind = "finite" /\ y.kind = "finite" /\ x.v <= y.v

(***************************************************************************)
(* C1. Sequential calls on a fresh breaker with threshold K: closed after  *)
(* each of the first K-1 failing calls, open after the K-th, and a call    *)
(* issued then, inside the cooldown window, is answered with a failure     *)
(* without invoking the operation.                                         *)
(***************************************************************************)
C1_OpensAtThreshold ==
    /\ [](pristine /\ Quiet =>
            /\ failsSinceReset < threshold => getState = "closed"
            /\ failsSinceReset = threshold => getState = "open")
    /\ [][pristine /\ failsSinceReset = threshold /\ WithinWindow /\ Entered(1)
            => /\ calls'[1].pc = "done"
               /\ ~calls'[1].invoked
               /\ calls'[1].result.tag = "failure"]_vars

\* threshold 2 or more: the K-th failure opened the breaker and the next
\* call was rejected
C1_Witness ==
    /\ pristine /\ threshold >= 2 /\ failsSinceReset = threshold
    /\ getState = "open"
    /\ Rejected(1)

(***************************************************************************)
(* C2. When execute calls overlap, at most one trial call is in progress   *)
(* while the breaker is half-open, and failureCount is the number of       *)
(* failures observed since the last success or reset() (no increment is    *)
(* lost).                                                                  *)
(***************************************************************************)
C2_SingleTrialNoLostCount ==
    /\ Cardinality(Trials) <= 1
    /\ failureCount = run

(***************************************************************************)
(* C3. Sequential calls: while the breaker is half-open exactly one call,  *)
(* the trial, is in progress; when it settles the breaker is closed (a     *)
(* success) or open (a failure), so between calls it is never half-open.   *)
(***************************************************************************)
C3_OneTrialThenCommit ==
    /\ [](getState = "half-open" => InFlight = {1} /\ calls[1].trial)
    /\ [](Quiet => getState # "half-open")
    /\ [][calls[1].trial /\ Resumed(1)
            => getState' = (IF calls'[1].result.tag = "success"
                            THEN "closed" ELSE "open")]_vars

\* a trial call was forwarded and failed: the breaker is open again
C3_Witness ==
    /\ calls[1].pc = "done" /\ calls[1].trial
    /\ calls[1].result.tag = "failure"
    /\ getState = "open"

(***************************************************************************)
(* C4. Whenever a trial call fails, failureCount is incremented,           *)
(* lastFailureTime is the time of the failure and the breaker is open.     *)
(***************************************************************************)
C4_TrialFailureReopens ==
    [][\A c \in Slots :
          calls[c].trial /\ Resumed(c) /\ calls'[c].result.tag = "failure"
          => /\ failureCount' = failureCount + 1
             /\ lastFailureTime' = Some(clock)
             /\ getState' = "open"]_vars

(***************************************************************************)
(* C5. Whenever a trial call succeeds the breaker is closed with           *)
(* failureCount 0, and every step into closed leaves failureCount 0.       *)
(***************************************************************************)
C5_TrialSuccessCloses ==
    /\ [][\A c \in Slots :
            calls[c].trial /\ Resumed(c) /\ calls'[c].result.tag = "success"
            => getState' = "closed" /\ failureCount' = 0]_vars
    /\ [][getState # "closed" /\ getState' = "closed" => failureCount' = 0]_vars

(***************************************************************************)
(* C6. A call issued while the breaker is open and inside the cooldown     *)
(* window returns at once the failure network_error with status 503: the   *)
(* operation is not invoked and the breaker's fields do not change.        *)
(***************************************************************************)
C6_OpenRejects ==
    [][\A c \in Slots :
          getState = "open" /\ WithinWindow /\ Entered(c)
          => /\ calls'[c].pc = "done"
             /\ ~calls'[c].invoked
             /\ calls'[c].result.tag = "failure"
             /\ calls'[c].result.error = "network_error"
             /\ calls'[c].result.statusCode = 503
             /\ UNCHANGED <<state, failureCount, lastFailureTime>>]_vars

\* a call was rejected inside the window of a positive timeout
C6_Witness ==
    \E c \in Slots :
        /\ Rejected(c) /\ calls[c].result.statusCode = 503
        /\ getState = "open" /\ WithinWindow /\ lastFailureTime[1] > 0

(***************************************************************************)
(* C7. A call issued while the breaker is open and the cooldown window has *)
(* elapsed moves the breaker to half-open and invokes the operation.       *)
(***************************************************************************)
C7_ElapsedAdmitsTrial ==
    [][\A c \in Slots :
          getState = "open" /\ WindowElapsed /\ Entered(c)
          => /\ calls'[c].invoked
             /\ calls'[c].pc = "await"
             /\ getState' = "half-open"]_vars

(***************************************************************************)
(* C8. reset() in any state leaves the breaker closed with failureCount 0  *)
(* and lastFailureTime null, and the breaker is open (or half-open) again  *)
(* only after at least `threshold` failures observed since the reset.      *)
(***************************************************************************)
C8_ResetRestarts ==
    /\ [][reset => /\ getState' = "closed"
                    /\ failureCount' = 0
                    /\ lastFailureTime' = Null]_vars
    /\ [](getState \in {"open", "half-open"} => failsSinceReset >= threshold)

\* reset() was called while a trial call was in progress (half-open), and
\* that call is still in progress
C8_Witness ==
    /\ Trials # {}
    /\ failsSinceReset = 0
    /\ getState = "closed" /\ failureCount = 0 /\ lastFailureTime = Null

(***************************************************************************)
(* C9. In every reachable state: state = open implies lastFailureTime is   *)
(* set.                                                                    *)
(***************************************************************************)
C9_OpenHasFailureTime ==
    state = "open" => lastFailureTime # Null

\* open again after a reset() had cleared lastFailureTime
C9_Witness ==
    state = "open" /\ ~pristine /\ failsSinceReset = threshold /\ lastFailureTime # Null

(***************************************************************************)
(* C10. With thunks that resolve to an Outcome, every execute call and     *)
(* every withRetry call that completes returns an Outcome (a success or a  *)
(* failure): neither ever throws.                                          *)
(***************************************************************************)
C10_NeverThrows ==
    /\ \A c \in Slots : calls[c].pc = "done" => IsOutcome(calls[c].result)
    /\ \A i \in RSlots : rcalls[i].pc = "done" => IsOutcome(rcalls[i].result)

\* withRetry returned the failure of its last attempt, after a retry
C10_Witness ==
    \E i \in RSlots :
        /\ rcalls[i].pc = "done" /\ rcalls[i].invocations >= 2
        /\ rcalls[i].result.tag = "failure"

(***************************************************************************)
(* C11. Whatever the strategy, when the first invocation of the operation  *)
(* resolves to a success, withRetry returns that success after exactly one *)
(* invocation and without computing or waiting any delay.                  *)
(***************************************************************************)
C11_FirstSuccessReturns ==
    \A i \in RSlots :
        LET me == rcalls[i]
        IN (Len(me.outs) >= 1 /\ me.outs[1].tag = "success") =>
              /\ me.pc = "done"
              /\ me.result = me.outs[1]
              /\ me.invocations = 1
              /\ me.delays = << >>

\* a first-try success under a strategy that had retries to give
C11_Witness ==
    \E i \in RSlots :
        /\ rcalls[i].pc = "done" /\ rcalls[i].outs = <<Success>>
        /\ rcalls[i].strategy.maxAttempts >= 2
        /\ rcalls[i].strategy.retryableErrors # {}

(***************************************************************************)
(* C12. With maxAttempts = N >= 1 and an operation that fails every time   *)
(* with a retryable kind, withRetry invokes the operation exactly N times: *)
(* it returns when the N-th invocation has failed, not before, and what it *)
(* returns is the failure of the N-th invocation.                          *)
(***************************************************************************)
C12_ExhaustsAttempts ==
    \A i \in RSlots :
        LET me == rcalls[i]
            N == me.strategy.maxAttempts
        IN (me.pc # "idle" /\ N >= 1 /\ AllRetryable(me.outs, me.strategy)) =>
              /\ me.invocations <= N
              /\ (me.pc = "done") <=> (Len(me.outs) = N)
              /\ me.pc = "done" => (me.invocations = N /\ me.result = me.outs[N])

\* three attempts, all failed, the last failure differs from the first
C12_Witness ==
    \E i \in RSlots :
        /\ rcalls[i].pc = "done" /\ rcalls[i].strategy.maxAttempts = 3
        /\ Len(rcalls[i].outs) = 3 /\ AllRetryable(rcalls[i].outs, rcalls[i].strategy)
        /\ rcalls[i].outs[3] # rcalls[i].outs[1]
        /\ rcalls[i].result = rcalls[i].outs[3]

(***************************************************************************)
(* C13. When the operation fails with a kind that is not in                *)
(* retryableErrors (an empty retryableErrors included), withRetry invokes  *)
(* it exactly once and returns that failure, for any maxAttempts > 1.      *)
(***************************************************************************)
C13_NonRetryableReturns ==
    \A i \in RSlots :
        LET me == rcalls[i]
        IN ( /\ Len(me.outs) >= 1 /\ me.outs[1].tag = "failure"
             /\ me.outs[1].error \notin me.strategy.retryableErrors
             /\ me.strategy.maxAttempts > 1 ) =>
              /\ me.pc = "done"
              /\ me.result = me.outs[1]
              /\ me.invocations = 1
              /\ me.delays = << >>

\* a network error under a strategy that retries nothing
C13_Witness ==
    \E i \in RSlots :
        /\ rcalls[i].pc = "done" /\ rcalls[i].strategy.retryableErrors = {}
        /\ rcalls[i].strategy.maxAttempts = 3
        /\ Len(rcalls[i].outs) = 1 /\ rcalls[i].outs[1].error = "network_error"

(***************************************************************************)
(* C14. The delay withRetry waits after failed attempt k is                *)
(* min(initialDelayMs * backoffFactor^(k-1), maxDelayMs), the same on      *)
(* every run: 100 then 200 for initialDelayMs 100, backoffFactor 2,        *)
(* maxDelayMs 1000, and 1000 then 2000 for the default strategy.           *)
(***************************************************************************)
C14_DelayFormula ==
    \A i \in RSlots :
        LET me == rcalls[i]
            s == me.strategy
            expected(k) ==
                Num(Min(s.initialDelayMs * Pow(s.backoffFactor, k - 1), s.maxDelayMs))
        IN /\ \A k \in 1..Len(me.delays) : me.delays[k] = expected(k)
           /\ me.pc = "sleep" => me.delay = expected(me.attemptNumber)
           /\ (s = scenarioStrategy /\ Len(me.delays) = 2) =>
                   me.delays = <<Num(100), Num(200)>>
           /\ (s = defaultRetryStrategy /\ Len(me.delays) = 2) =>
                   me.delays = <<Num(1000), Num(2000)>>

\* the default strategy has waited its two delays
C14_Witness ==
    \E i \in RSlots :
        /\ rcalls[i].strategy = defaultRetryStrategy
        /\ rcalls[i].delays = <<Num(1000), Num(2000)>>

(***************************************************************************)
(* C15. For backoffFactor > 1 and initialDelayMs >= 0, the delays computed *)
(* at successive attempts never decrease, and each is at most maxDelayMs.  *)
(***************************************************************************)
C15_DelaysMonotoneCapped ==
    ( /\ probe.pc = "out"
      /\ probe.strategy.backoffFactor > 1
      /\ probe.strategy.initialDelayMs >= 0 ) =>
        /\ lessEq(probe.delay, probe.next)
        /\ lessEq(probe.delay, Num(probe.strategy.maxDelayMs))
        /\ lessEq(probe.next, Num(probe.strategy.maxDelayMs))

(***************************************************************************)
(* C16. When the operation fails j times with retryable kinds and then     *)
(* succeeds, with j < maxAttempts, withRetry keeps going after each of the *)
(* j failures, invokes the operation exactly j + 1 times and returns the   *)
(* success.                                                                *)
(***************************************************************************)
C16_SucceedsAfterRetries ==
    \A i \in RSlots :
        LET me == rcalls[i]
            n == Len(me.outs)
        IN me.pc # "idle" =>
             \A j \in 0..n :
                (j < me.strategy.maxAttempts
                    /\ AllRetryable(SubSeq(me.outs, 1, j), me.strategy)) =>
                  IF j = n
                  THEN me.pc \in {"fn", "sleep"}
                  ELSE me.outs[j + 1].tag = "success" =>
                          /\ me.pc = "done"
                          /\ me.result = me.outs[j + 1]
                          /\ me.invocations = j + 1
                          /\ n = j + 1

\* maxAttempts 3: two network errors, then a success at the third invocation
C16_Witness ==
    \E i \in RSlots :
        /\ rcalls[i].pc = "done" /\ rcalls[i].strategy.maxAttempts = 3
        /\ rcalls[i].outs = << Failure("network_error", 500, "upstream"),
                               Failure("network_error", 500, "upstream"), Success >>
        /\ rcalls[i].invocations = 3 /\ rcalls[i].result = Success

(***************************************************************************)
(* C17. Within one withRetry call the attempts are strictly ordered: an    *)
(* invocation begins only when every earlier invocation has resolved and   *)
(* the delay computed after the previous one has been slept; at no time    *)
(* are two invocations of the same call in progress.                       *)
(***************************************************************************)
C17_AttemptsInOrder ==
    /\ [](\A i \in RSlots :
            rcalls[i].invocations - Len(rcalls[i].outs) \in {0, 1})
    /\ [][\A i \in RSlots : Invoked(i) =>
            /\ rcalls'[i].invocations = rcalls[i].invocations + 1
            /\ Len(rcalls[i].outs) = rcalls[i].invocations
            /\ rcalls[i].pc \in {"idle", "sleep"}
            /\ rcalls[i].pc = "sleep" =>
                  /\ Len(rcalls'[i].delays) = rcalls[i].invocations
                  /\ rcalls'[i].delays[rcalls[i].invocations] = rcalls[i].delay]_vars

\* the second invocation is in progress: the first has resolved, one delay
\* has been slept
C17_Witness ==
    \E i \in RSlots :
        /\ rcalls[i].pc = "fn" /\ rcalls[i].invocations = 2
        /\ Len(rcalls[i].outs) = 1 /\ Len(rcalls[i].delays) = 1

(***************************************************************************)
(* C18. Under sequential calls: a success while closed sets failureCount   *)
(* to 0 and leaves the circuit closed; the circuit goes from closed to     *)
(* open only in the step in which an operation's failure completes a run   *)
(* of at least threshold failures with no success and no reset() between   *)
(* them.                                                                   *)
(***************************************************************************)
C18_OpensOnlyAfterRun ==
    [][ /\ \A c \in Slots :
            (Resumed(c) /\ calls'[c].result.tag = "success" /\ state = "closed") =>
                (failureCount' = 0 /\ state' = "closed")
        /\ (state = "closed" /\ state' = "open") =>
                /\ \E c \in Slots : Resumed(c) /\ calls'[c].result.tag = "failure"
                /\ run' >= threshold ]_vars

\* a success, then threshold = 2 failures in a row: closed to open
C18_Witness ==
    /\ threshold = 2 /\ state = "open" /\ run = 2
    /\ ~pristine /\ failsSinceReset > 2
    /\ calls[1].pc = "done" /\ calls[1].invoked /\ ~calls[1].trial
    /\ calls[1].result.tag = "failure"

(***************************************************************************)
(* C19. mapCogneeError returns a MemoryError for every input, of exactly   *)
(* one kind: for a CogneeError, 401 gives authentication_failed, 403       *)
(* permission_denied, 404 dataset_not_found, 500 and above network_error,  *)
(* 400 and 422 invalid_input, every other status network_error, and a      *)
(* missing or zero status counts as 500; any other input gives             *)
(* unknown_error.                                                          *)
(***************************************************************************)
C19_MapsEveryError ==
    probe.pc = "out" =>
        LET e == probe.error
            code == IF e.statusCode = Null \/ e.statusCode = Some(0)
                    THEN 500 ELSE e.statusCode[1]
            kind == CASE e.class # "CogneeError" -> "unknown_error"
                      [] code = 401 -> "authentication_failed"
                      [] code = 403 -> "permission_denied"
                      [] code = 404 -> "dataset_not_found"
                      [] code >= 500 -> "network_error"
                      [] code \in {400, 422} -> "invalid_input"
                      [] OTHER -> "network_error"
        IN /\ probe.mapped.error = kind
           /\ probe.mapped.error \in MemoryErrorKinds
           /\ (e.class = "CogneeError" /\ kind = "network_error") =>
                  probe.mapped.statusCode = Some(code)

\* a CogneeError whose status is 0 was mapped to a network error with
\* status 500
C19_Witness ==
    /\ probe.pc = "out" /\ probe.error.class = "CogneeError"
    /\ probe.error.statusCode = Some(0)
    /\ probe.mapped.error = "network_error" /\ probe.mapped.statusCode = Some(500)

(***************************************************************************)
(* C20. failureCount changes in three ways only: it grows by one when a    *)
(* forwarded operation resolves to a failure, it becomes 0 when one        *)
(* resolves to a success, and reset() makes it 0.  A call that the open    *)
(* circuit rejects leaves state, failureCount and lastFailureTime as they  *)
(* are: a rejected call does not extend the cooldown.                      *)
(***************************************************************************)
C20_CountChangesAndRejects ==
    [][ /\ \A c \in Slots : Resumed(c) =>
              /\ calls'[c].result.tag = "failure" => failureCount' = failureCount + 1
              /\ calls'[c].result.tag = "success" => failureCount' = 0
        /\ failureCount' # failureCount =>
              \/ \E c \in Slots : Resumed(c)
              \/ (failureCount' = 0 /\ state' = "closed" /\ lastFailureTime' = Null
                    /\ calls' = calls)
        /\ \A c \in Slots : (Entered(c) /\ ~calls'[c].invoked) =>
              UNCHANGED <<state, failureCount, lastFailureTime>> ]_vars

\* a call was rejected while another call's failure had been counted
\* after the circuit opened
C20_Witness ==
    \E c \in Slots :
        /\ Rejected(c) /\ state = "open"
        /\ failureCount > threshold

(***************************************************************************)
(* C21. withRetry waits once between two consecutive invocations and       *)
(* nowhere else: the delays waited number the invocations minus one, none  *)
(* precedes the first invocation, none is computed after the invocation    *)
(* whose result is returned; with maxAttempts = 1 the first failure is     *)
(* returned with no delay, whatever its kind.                              *)
(***************************************************************************)
C21_OneDelayBetweenInvocations ==
    \A i \in RSlots :
        LET me == rcalls[i]
        IN /\ me.pc # "idle" => Len(me.delays) = me.invocations - 1
           /\ me.invocations <= 1 => me.delays = << >>
           /\ me.pc \in {"fn", "done"} =>
                 me.delay = IF me.delays = << >> THEN Num(0)
                            ELSE me.delays[Len(me.delays)]
           /\ ( /\ me.strategy.maxAttempts = 1
                /\ Len(me.outs) >= 1 /\ me.outs[1].tag = "failure" ) =>
                 /\ me.pc = "done" /\ me.result = me.outs[1]
                 /\ me.invocations = 1 /\ me.delays = << >>

\* maxAttempts 1: a retryable failure came back at once
C21_Witness ==
    \E i \in RSlots :
        /\ rcalls[i].pc = "done" /\ rcalls[i].strategy.maxAttempts = 1
        /\ Len(rcalls[i].outs) = 1 /\ rcalls[i].outs[1].tag = "failure"
        /\ rcalls[i].outs[1].error \in rcalls[i].strategy.retryableErrors
        /\ rcalls[i].delays = << >>

(***************************************************************************)
(* C22. Retryability is decided for each failure: when attempt k, with     *)
(* k < maxAttempts, fails with a kind outside retryableErrors after k - 1  *)
(* retryable failures, withRetry returns that k-th failure at once, after  *)
(* exactly k invocations.                                                  *)
(***************************************************************************)
C22_DecidedEachFailure ==
    \A i \in RSlots :
        LET me == rcalls[i]
        IN \A k \in 1..Len(me.outs) :
             ( /\ k < me.strategy.maxAttempts
               /\ AllRetryable(SubSeq(me.outs, 1, k - 1), me.strategy)
               /\ me.outs[k].tag = "failure"
               /\ me.outs[k].error \notin me.strategy.retryableErrors ) =>
                 /\ me.pc = "done" /\ me.result = me.outs[k]
                 /\ Len(me.outs) = k /\ me.invocations = k

\* a retryable failure, then one that is not, with an attempt to spare
C22_Witness ==
    \E i \in RSlots :
        /\ rcalls[i].pc = "done" /\ rcalls[i].strategy.maxAttempts >= 3
        /\ Len(rcalls[i].outs) = 2
        /\ rcalls[i].outs[1].error \in rcalls[i].strategy.retryableErrors
        /\ rcalls[i].outs[2].tag = "failure"
        /\ rcalls[i].outs[2].error \notin rcalls[i].strategy.retryableErrors
        /\ rcalls[i].invocations = 2

(***************************************************************************)
(* C23. What withRetry returns is the Outcome of the last invocation it    *)
(* made, as it is: not the failure of an earlier attempt, not a value of   *)
(* its own making.                                                         *)
(***************************************************************************)
C23_ReturnsLastOutcome ==
    \A i \in RSlots :
        LET me == rcalls[i]
        IN me.pc = "done" =>
             /\ Len(me.outs) = me.invocations
             /\ me.result = me.outs[me.invocations]

\* the returned failure is the one of the third attempt, and differs from
\* the one of the second
C23_Witness ==
    \E i \in RSlots :
        /\ rcalls[i].pc = "done" /\ rcalls[i].invocations = 3
        /\ rcalls[i].outs[2] # rcalls[i].outs[3]
        /\ rcalls[i].result = rcalls[i].outs[3]
        /\ rcalls[i].result.tag = "failure"

(***************************************************************************)
(* C27. For every strategy, maxAttempts <= 0 included, withRetry invokes   *)
(* the operation at least once and at most max(1, maxAttempts) times, and  *)
(* the call comes to its end when every invocation and every delay does.   *)
(***************************************************************************)
C27_BoundedAndTerminates ==
    /\ [](\A i \in RSlots :
            LET N == rcalls[i].strategy.maxAttempts
            IN rcalls[i].pc # "idle" =>
                 /\ rcalls[i].invocations >= 1
                 /\ rcalls[i].invocations <= (IF N > 1 THEN N ELSE 1))
    /\ \A i \in RSlots :
          (rcalls[i].pc \in {"fn", "sleep"}) ~> (rcalls[i].pc = "done")

\* maxAttempts -1: one invocation, and the retryable failure is returned
C27_Witness ==
    \E i \in RSlots :
        /\ rcalls[i].pc = "done" /\ rcalls[i].strategy.maxAttempts = -1
        /\ rcalls[i].invocations = 1
        /\ rcalls[i].result.tag = "failure"
        /\ rcalls[i].result.error \in rcalls[i].strategy.retryableErrors

(***************************************************************************)
(* C24. withRetry keeps no state across calls: when two calls, given the   *)
(* same strategy or not, interleave at their awaits, a step of one call    *)
(* leaves the other as it is and never changes a strategy, and each call's *)
(* invocations, delays and returned Outcome are those its own strategy and *)
(* the outcomes of its own operation give when the call runs alone.        *)
(***************************************************************************)
C24_CallsIndependent ==
    /\ [][\A i \in RSlots : rcalls'[i] # rcalls[i] =>
            /\ \A j \in RSlots \ {i} : rcalls'[j] = rcalls[j]
            /\ (rcalls[i].pc # "idle" /\ rcalls'[i].pc # "idle") =>
                  rcalls'[i].strategy = rcalls[i].strategy]_vars
    /\ [](\A i \in RSlots :
            LET me == rcalls[i]
                s == me.strategy
                n == Len(me.outs)
            IN me.pc # "idle" =>
                 /\ me.attemptNumber = me.invocations
                 /\ Len(me.delays) = me.invocations - 1
                 /\ \A k \in 1..Len(me.delays) :
                       me.delays[k] =
                         Num(Min(s.initialDelayMs * Pow(s.backoffFactor, k - 1),
                                 s.maxDelayMs))
                 /\ \A k \in 1..n :
                       LET goesOn == /\ me.outs[k].tag = "failure"
                                     /\ k < s.maxAttempts
                                     /\ me.outs[k].error \in s.retryableErrors
                       IN IF k < n THEN goesOn
                          ELSE IF goesOn THEN me.pc \in {"sleep", "fn"}
                               ELSE /\ me.pc = "done" /\ me.result = me.outs[n]
                                    /\ me.invocations = n)

\* both calls were given the default strategy; one is at its third attempt
\* while the other has returned the failure of its first
C24_Witness ==
    /\ rcalls[1].strategy = defaultRetryStrategy
    /\ rcalls[2].strategy = defaultRetryStrategy
    /\ rcalls[1].pc = "fn" /\ rcalls[1].invocations = 3
    /\ rcalls[2].pc = "done" /\ rcalls[2].invocations = 1
    /\ rcalls[2].result.tag = "failure"

(***************************************************************************)
(* C25. With sequential calls, a thunk that resolves to an Outcome and     *)
(* threshold >= 1, whenever no call is in flight: closed implies           *)
(* failureCount < threshold, open implies failureCount >= threshold, and   *)
(* getState() is not half-open.                                            *)
(***************************************************************************)
C25_BetweenCalls ==
    Quiet =>
        /\ state = "closed" => failureCount < threshold
        /\ state = "open" => failureCount >= threshold
        /\ getState # "half-open"

\* closed again after a trial succeeded, no call in flight
C25_Witness ==
    /\ Quiet /\ state = "closed" /\ failureCount = 0
    /\ calls[1].pc = "done" /\ calls[1].trial /\ calls[1].result.tag = "success"

(***************************************************************************)
(* C26. When the thunk given to execute rejects, the call is not counted   *)
(* as a failure: failureCount, lastFailureTime and state are left as they  *)
(* were when the thunk was invoked, so a trial call that throws leaves the *)
(* circuit half-open, and the rejection reaches the caller.                *)
(***************************************************************************)
C26_ThrowLeavesFields ==
    /\ [][\A c \in Slots :
            (Resumed(c) /\ calls'[c].result.tag = "throw") =>
                UNCHANGED <<state, failureCount, lastFailureTime>>]_vars
    /\ [][\A c \in Slots :
            (Resumed(c) /\ calls'[c].result.tag = "throw" /\ calls[c].trial) =>
                state' = "half-open"]_vars

\* the trial call threw: the circuit is half-open with no call in flight
C26_Witness ==
    /\ Quiet /\ state = "half-open" /\ failureCount >= threshold
    /\ calls[1].pc = "done" /\ calls[1].trial /\ calls[1].result = Thrown

(***************************************************************************)
(* C29. Across every interleaving of remember and rememberMany calls on    *)
(* one session that target the same dataset name, createDataset is sent    *)
(* to the remote service at most once for that name.                       *)
(***************************************************************************)
C29_CreateAtMostOnce ==
    \A n \in DatasetNames : created[n] <= 1

(***************************************************************************)
(* C30. For every strategy of scope user, project or organization with a   *)
(* non-empty organizationId o, ids with an underscore included, the name   *)
(* generateDatasetName gives belongs to o for isOrganizationDataset, and   *)
(* extractOrganizationId gives back o.                                     *)
(***************************************************************************)
C30_NamingRoundTrip ==
    (probe.pc = "out" /\ probe.strategy.organizationId # << >>) =>
        /\ probe.belongs
        /\ probe.extracted = [found |-> TRUE, id |-> probe.strategy.organizationId]

(***************************************************************************)
(* C28. withRetry(() => breaker.execute(op)) under the default strategy:   *)
(* an execute call that enters while the circuit is open and within its    *)
(* window does not invoke op and resolves to the network_error failure of  *)
(* the open circuit; withRetry retries that failure while attempts remain; *)
(* and a call all of whose execute calls were answered so returns that     *)
(* failure after maxAttempts = 3 execute calls.                            *)
(***************************************************************************)
C28_RetriesOpenBreaker ==
    /\ [][(rcalls[1].pc = "fn" /\ Entered(1) /\ state = "open" /\ WithinWindow) =>
            /\ ~calls'[1].invoked
            /\ calls'[1].result = circuitOpenError
            /\ calls'[1].result.error = "network_error"
            /\ UNCHANGED <<state, failureCount, lastFailureTime>>]_vars
    /\ [](\A k \in 1..Len(rcalls[1].outs) :
            (rcalls[1].outs[k] = circuitOpenError /\ k = Len(rcalls[1].outs)) =>
                IF k < 3 THEN rcalls[1].pc \in {"sleep", "fn"}
                ELSE rcalls[1].pc = "done")
    /\ []((rcalls[1].pc = "done"
             /\ \A k \in 1..Len(rcalls[1].outs) : rcalls[1].outs[k] = circuitOpenError) =>
                /\ rcalls[1].invocations = 3
                /\ rcalls[1].result = circuitOpenError)

\* three execute calls, all answered by the open circuit, the window still
\* running after time has passed
C28_Witness ==
    /\ rcalls[1].pc = "done" /\ rcalls[1].invocations = 3
    /\ rcalls[1].outs = <<circuitOpenError, circuitOpenError, circuitOpenError>>
    /\ rcalls[1].result = circuitOpenError
    /\ state = "open" /\ WithinWindow /\ clock > lastFailureTime[1]

====
